---------------------------- MODULE Spec2Model ----------------------------
(*
  HealTone backend: the checkout-session initiator and the Stripe webhook
  reconciler, in the two variants the repository holds:
    src/server.js         ("server.js")
    src/unnamed/part_000  ("part_000")
  The datastore (Supabase tables profiles and payment_history) and the
  processor (Stripe) are the environment: their outcomes are inputs of the
  request that meets them.
*)
EXTENDS Integers, Sequences, FiniteSets, TLC

\* ------------------------------------------------------------------ bounds
\* Latest instant the wall clock reaches: every request is handled at a later
\* instant than the one before it, so this is the most requests of a behaviour.
MaxClock == 3

\* ---------------------------------------------------------- program constants
TrialDays == 7
MinorUnits == 100

\* ------------------------------------------------------------------ values
Null == "null"
Undefined == "undefined"
\* SQL NULL of a timestamp column; toISOString(t) is the stored form of instant t.
NoDate == <<>>
toISOString(t) == <<t>>

Variants == {"server.js", "part_000"}
Users == {"u1", "u2"}
SubscriptionIds == {"sub_1", "sub_2"}

\* JavaScript truthiness of the string-or-absent values the handlers test.
Truthy(v) == v # Null /\ v # Undefined /\ v # ""

\* a || b
OrElse(a, b) == IF Truthy(a) THEN a ELSE b

\* String.prototype.toUpperCase on the currency codes in use.
toUpperCase(s) ==
  CASE s = "usd" -> "USD"
    [] s = "eur" -> "EUR"
    [] OTHER -> s

\* amount_total / 100 as a decimal number: whole units and hundredths.
DivideMinorUnits(a) == [units |-> a \div MinorUnits, hundredths |-> a % MinorUnits]

\* Columns holding timestamps; a handler always writes them from new Date().
DateColumns ==
  {"trial_end_date", "subscription_start_date", "subscription_end_date",
   "last_payment_date"}

\* The object a supabase update sends: JSON.stringify drops undefined members.
Defined(r) ==
  [f \in {g \in DOMAIN r : g \in DateColumns \/ r[g] # Undefined} |-> r[f]]

\* Object spread / property assignment: b's members over a's.
Merge(a, b) ==
  [f \in (DOMAIN a) \cup (DOMAIN b) |-> IF f \in DOMAIN b THEN b[f] ELSE a[f]]

\* ------------------------------------------------------------------ state
VARIABLES
  variant,          \* which of the two server files is deployed
  now,              \* the instant new Date() reads in the next request
  profiles,         \* table profiles: user id -> Subscription Record
  payment_history,  \* table payment_history: sequence of inserted rows
  req,              \* the request handled last
  res,              \* the response sent to it
  dbCalls,          \* datastore calls issued while handling it
  stripeCalls       \* arguments of the stripe.checkout.sessions.create calls in it

vars == <<variant, now, profiles, payment_history, req, res, dbCalls, stripeCalls>>

\* A profile as account signup leaves it.
NewProfile ==
  [ subscription_tier |-> "free",
    subscription_status |-> "none",
    stripe_customer_id |-> Null,
    stripe_subscription_id |-> Null,
    trial_end_date |-> NoDate,
    subscription_start_date |-> NoDate,
    subscription_end_date |-> NoDate,
    last_payment_date |-> NoDate ]

NoRequest == [route |-> "none"]
NoResponse == [status |-> 0, body |-> "none"]

Init ==
  /\ variant \in Variants
  /\ now = 0
  /\ profiles = [u \in Users |-> NewProfile]
  /\ payment_history = <<>>
  /\ req = NoRequest
  /\ res = NoResponse
  /\ dbCalls = 0
  /\ stripeCalls = <<>>

\* ------------------------------------------------------- datastore (Supabase)
EmptyObject == [f \in {} |-> Null]

\* What a datastore call can come to: applied; refused with an {error} result
\* the promise resolves to; or a rejected promise (an exception at the await).
DbOutcomes == {"ok", "error", "throw"}

\* .eq(column, value) on profiles: the rows the filter selects. The primary key
\* is the column "id"; an absent value selects nothing.
Selected(P, column, value) ==
  { u \in DOMAIN P :
      /\ Truthy(value)
      /\ IF column = "id" THEN u = value ELSE P[u][column] = value }

\* supabase.from('profiles').update(values).eq(column, value)
profilesUpdate(P, values, column, value, outcome) ==
  IF outcome = "ok"
    THEN [u \in DOMAIN P |->
            IF u \in Selected(P, column, value)
              THEN Merge(P[u], Defined(values))
              ELSE P[u]]
    ELSE P

\* supabase.from('payment_history').insert(row)
paymentHistoryInsert(H, row, outcome) ==
  IF outcome = "ok" THEN Append(H, row) ELSE H

\* The result of a handler: the tables after it, the datastore calls it
\* issued, and whether it ended in an exception.
Result(P, H, calls, threw) ==
  [profiles |-> P, payment_history |-> H, calls |-> calls, threw |-> threw]

\* ------------------------------------------------ webhook handlers, server.js
\* o.update and o.insert are the outcomes of the handler's datastore calls.
handleCheckoutComplete(session, P, H, t, o) ==
  LET userId == session.metadata.userId
      plan == session.metadata.plan
      updateData ==
        Merge(
          [ subscription_tier |-> plan,
            subscription_status |->
              IF session.mode = "subscription"
                THEN (IF Truthy(session.subscription) THEN "trial" ELSE "active")
                ELSE "active",
            stripe_customer_id |-> session.customer,
            subscription_start_date |-> toISOString(t) ],
          IF Truthy(session.subscription)
            THEN [ stripe_subscription_id |-> session.subscription,
                   trial_end_date |-> toISOString(t + TrialDays) ]
            ELSE EmptyObject)
      row ==
        [ user_id |-> IF userId = Undefined THEN Null ELSE userId,
          stripe_payment_id |-> OrElse(session.payment_intent, session.id),
          amount |-> DivideMinorUnits(session.amount_total),
          currency |-> toUpperCase(session.currency),
          payment_type |-> IF plan = "lifetime" THEN "one_time" ELSE "subscription",
          status |-> "succeeded" ]
      P1 == profilesUpdate(P, updateData, "id", userId, o.update)
  IN  IF o.update = "throw" THEN Result(P, H, 1, TRUE)
      ELSE IF o.insert = "throw" THEN Result(P1, H, 2, TRUE)
      ELSE Result(P1, paymentHistoryInsert(H, row, o.insert), 2, FALSE)

handleSubscriptionUpdate(subscription, P, H, t, o) ==
  LET status ==
        IF subscription.status = "trialing" THEN "trial"
        ELSE IF subscription.status = "active" THEN "active"
        ELSE "past_due"
  IN  Result(
        profilesUpdate(P,
          [subscription_status |-> status, last_payment_date |-> toISOString(t)],
          "stripe_subscription_id", subscription.id, o.update),
        H, 1, o.update = "throw")

handleSubscriptionDeleted(subscription, P, H, t, o) ==
  Result(
    profilesUpdate(P,
      [ subscription_status |-> "canceled",
        subscription_tier |-> "free",
        subscription_end_date |-> toISOString(t) ],
      "stripe_subscription_id", subscription.id, o.update),
    H, 1, o.update = "throw")

handlePaymentSucceeded(invoice, P, H, t, o) ==
  IF ~Truthy(invoice.subscription) THEN Result(P, H, 0, FALSE)
  ELSE Result(
         profilesUpdate(P,
           [subscription_status |-> "active", last_payment_date |-> toISOString(t)],
           "stripe_subscription_id", invoice.subscription, o.update),
         H, 1, o.update = "throw")

\* handlePaymentFailed written after handlePaymentSucceeded, date stamp kept.
handlePaymentFailedStamped(invoice, P, H, t, o) ==
  Result(
    profilesUpdate(P,
      [subscription_status |-> "past_due", last_payment_date |-> toISOString(t)],
      "stripe_subscription_id", invoice.subscription, o.update),
    H, 1, o.update = "throw")

handlePaymentFailed(invoice, P, H, t, o) ==
  Result(
    profilesUpdate(P, [subscription_status |-> "past_due"],
      "stripe_subscription_id", invoice.subscription, o.update),
    H, 1, o.update = "throw")

\* The switch on event.type (server.js); any other type does nothing.
dispatch(event, P, H, t, o) ==
  CASE event.type = "checkout.session.completed" ->
         handleCheckoutComplete(event.object, P, H, t, o)
    [] event.type = "customer.subscription.updated" ->
         handleSubscriptionUpdate(event.object, P, H, t, o)
    [] event.type = "customer.subscription.deleted" ->
         handleSubscriptionDeleted(event.object, P, H, t, o)
    [] event.type = "invoice.payment_succeeded" ->
         handlePaymentSucceeded(event.object, P, H, t, o)
    [] event.type = "invoice.payment_failed" ->
         handlePaymentFailed(event.object, P, H, t, o)
    [] OTHER -> Result(P, H, 0, FALSE)

\* ------------------------------------------------- webhook handler, part_000
\* Only checkout.session.completed is handled; an exception of the update is
\* caught and logged inside the handler.
reconcilePart000(event, P, H, o) ==
  IF event.type = "checkout.session.completed"
    THEN LET session == event.object
             userId == session.client_reference_id
             planFromMeta == session.metadata.plan
             inferredPlan == IF Truthy(session.subscription) THEN "weekly" ELSE "lifetime"
             plan == OrElse(planFromMeta, inferredPlan)
         IN  IF Truthy(userId) /\ Truthy(plan)
               THEN Result(
                      profilesUpdate(P,
                        [ subscription_tier |-> plan,
                          subscription_status |-> "active",
                          stripe_customer_id |-> session.customer,
                          stripe_subscription_id |-> OrElse(session.subscription, Null) ],
                        "id", userId, o.update),
                      H, 1, FALSE)
               ELSE Result(P, H, 0, FALSE)
    ELSE Result(P, H, 0, FALSE)

\* ------------------------------------------------------------ webhook inputs
SubscriptionOf(u) == IF u = "u1" THEN "sub_1" ELSE "sub_2"
CustomerOf(u) == IF u = "u1" THEN "cus_1" ELSE "cus_2"
SessionIdOf(u, plan, meta) ==
  CASE u = "u1" /\ plan = "weekly" -> "cs_1"
    [] u = "u1" /\ plan = "lifetime" /\ meta -> "cs_2"
    [] u = "u2" /\ plan = "weekly" -> "cs_3"
    [] u = "u2" /\ plan = "lifetime" /\ meta -> "cs_4"
    [] u = "u1" /\ plan = "lifetime" /\ ~meta -> "cs_5"
    [] OTHER -> "cs_6"
PaymentIntentOf(id) ==
  CASE id = "cs_2" -> "pi_2"
    [] id = "cs_4" -> "pi_4"
    [] id = "cs_5" -> "pi_5"
    [] OTHER -> "pi_6"

\* The completed session of user u's purchase of plan: as the processor
\* completes a session the initiator opened (meta), or one opened elsewhere
\* with no metadata (~meta). A recurring purchase carries the subscription it
\* started and no payment intent; a one-time purchase the reverse.
CompletedSession(u, plan, meta) ==
  [ id |-> SessionIdOf(u, plan, meta),
    client_reference_id |-> u,
    metadata |-> IF meta THEN [userId |-> u, plan |-> plan]
                         ELSE [userId |-> Undefined, plan |-> Undefined],
    mode |-> IF plan = "lifetime" THEN "payment" ELSE "subscription",
    subscription |-> IF plan = "lifetime" THEN Null ELSE SubscriptionOf(u),
    customer |-> CustomerOf(u),
    payment_intent |-> IF plan = "lifetime"
                         THEN PaymentIntentOf(SessionIdOf(u, plan, meta))
                         ELSE Null,
    amount_total |-> IF plan = "lifetime" THEN 4999 ELSE 499,
    currency |-> "usd" ]

\* Each user's two purchases through the initiator, and a one-time purchase
\* opened elsewhere.
Sessions ==
  { CompletedSession(u, plan, TRUE) : u \in Users, plan \in {"weekly", "lifetime"} }
  \cup { CompletedSession(u, "lifetime", FALSE) : u \in Users }

\* The processor issues one event per change, so an event is identified by its
\* content: delivering the same record again is a redelivery of that event.
Events ==
  { [type |-> "checkout.session.completed", object |-> s] : s \in Sessions }
  \cup { [type |-> "customer.subscription.updated",
          object |-> [id |-> i, status |-> st]] :
           i \in SubscriptionIds, st \in {"trialing", "active", "past_due"} }
  \cup { [type |-> "customer.subscription.deleted",
          object |-> [id |-> i, status |-> "canceled"]] : i \in SubscriptionIds }
  \cup { [type |-> ty, object |-> [subscription |-> i]] :
           ty \in {"invoice.payment_succeeded", "invoice.payment_failed"},
           i \in SubscriptionIds \cup {Null} }
  \cup { [type |-> "customer.created", object |-> [id |-> "cus_1"]] }

\* What a sender without the signing secret forges: a completed purchase.
ForgedEvents == { e \in Events : e.type = "checkout.session.completed" }

AllOk == [update |-> "ok", insert |-> "ok"]

\* The outcomes of the datastore calls of one delivery: at most one call fails.
Outcomes(e) ==
  {AllOk}
  \cup { [update |-> x, insert |-> "ok"] : x \in DbOutcomes \ {"ok"} }
  \cup (IF e.type = "checkout.session.completed"
          THEN { [update |-> "ok", insert |-> x] : x \in DbOutcomes \ {"ok"} }
          ELSE {})

\* Bytes that are no event at all.
Unparseable == [type |-> "unparseable", object |-> EmptyObject]

\* A delivery: the payload, whether its signature verifies, and what the
\* datastore calls made for it come to.
WebhookRequests ==
  UNION { { [route |-> "/webhook", signature |-> "valid", event |-> e, outcome |-> o] :
              o \in Outcomes(e) } : e \in Events }
  \cup
  { [route |-> "/webhook", signature |-> "mismatch", event |-> e, outcome |-> AllOk] :
      e \in ForgedEvents }
  \cup
  { [route |-> "/webhook", signature |-> "malformed", event |-> Unparseable,
     outcome |-> AllOk] }

\* The payload parsed with no verification of its signature.
constructEventUnverified(r) == [ok |-> TRUE, event |-> r.event]

\* stripe.webhooks.constructEvent: the event, or an exception. Whether the
\* signature verifies is the environment's: it rests on the signing secret and
\* on the bytes the body parsers ahead of the route hand over.
constructEvent(r) ==
  IF r.signature = "valid" THEN [ok |-> TRUE, event |-> r.event] ELSE [ok |-> FALSE]

Response(status, body) == [status |-> status, body |-> body]

\* ------------------------------------------------------------------ actions
\* POST /webhook, server.js
webhookServer(r) ==
  /\ variant = "server.js"
  /\ now < MaxClock
  /\ LET v == constructEvent(r)
         out == IF v.ok THEN dispatch(v.event, profiles, payment_history, now, r.outcome)
                        ELSE Result(profiles, payment_history, 0, FALSE)
     IN  /\ profiles' = out.profiles
         /\ payment_history' = out.payment_history
         /\ dbCalls' = out.calls
         /\ res' = IF ~v.ok THEN Response(400, "Webhook Error")
                   ELSE IF out.threw THEN Response(500, "Webhook handler failed")
                   ELSE Response(200, "received")
  /\ req' = r
  /\ now' = now + 1
  /\ stripeCalls' = <<>>
  /\ UNCHANGED variant

\* POST /webhook, part_000
webhookPart000(r) ==
  /\ variant = "part_000"
  /\ now < MaxClock
  /\ LET v == constructEvent(r)
         out == IF v.ok THEN reconcilePart000(v.event, profiles, payment_history, r.outcome)
                        ELSE Result(profiles, payment_history, 0, FALSE)
     IN  /\ profiles' = out.profiles
         /\ payment_history' = out.payment_history
         /\ dbCalls' = out.calls
         /\ res' = IF ~v.ok THEN Response(400, "Webhook Error")
                   ELSE Response(200, "received")
  /\ req' = r
  /\ now' = now + 1
  /\ stripeCalls' = <<>>
  /\ UNCHANGED variant

\* ------------------------------------------------- checkout-session initiator
\* skipTrial FALSE stands for a body without the member (or with a false one).
CheckoutBodies ==
  [ plan : {"weekly", "lifetime", "monthly", "constructor", Undefined},
    userId : {"u1", Undefined},
    email : {"u1@example.com", Undefined},
    skipTrial : BOOLEAN ]

\* A request to open a checkout, and what the processor does with a well-formed
\* session request it receives for it.
CheckoutRequests ==
  { [route |-> "/create-checkout-session", body |-> b, stripe |-> st] :
      b \in CheckoutBodies, st \in {"ok", "fail"} }

PriceIds == {"price_weekly", "price_lifetime"}

\* prices[plan]: the object literal's own members, then those every object
\* inherits from Object.prototype, else undefined.
prices(plan) ==
  CASE plan = "weekly" -> "price_weekly"
    [] plan = "lifetime" -> "price_lifetime"
    [] plan \in {"constructor", "toString", "valueOf", "hasOwnProperty"} -> "[Function]"
    [] OTHER -> Undefined

\* stripe.checkout.sessions.create resolves when the processor is reachable and
\* the line item names a price; otherwise it rejects.
stripeAccepts(config, st) == st = "ok" /\ config.price \in PriceIds

\* The session request of server.js.
sessionConfigServer(body) ==
  Merge(
    [ customer_email |-> body.email,
      client_reference_id |-> body.userId,
      price |-> prices(body.plan),
      mode |-> IF body.plan = "lifetime" THEN "payment" ELSE "subscription",
      metadata |-> [userId |-> body.userId, plan |-> body.plan] ],
    IF body.plan = "weekly" /\ ~body.skipTrial
      THEN [subscription_data |-> [trial_period_days |-> TrialDays]]
      ELSE EmptyObject)

\* The session request of part_000.
sessionConfigPart000(body) ==
  Merge(
    [ customer_email |-> body.email,
      client_reference_id |-> body.userId,
      price |-> prices(body.plan),
      mode |-> IF body.plan = "lifetime" THEN "payment" ELSE "subscription",
      metadata |-> [plan |-> body.plan] ],
    IF body.plan = "weekly"
      THEN [subscription_data |-> [trial_period_days |-> TrialDays]]
      ELSE EmptyObject)

\* The validation of part_000: the response it ends with, or none.
validatePart000(body) ==
  IF ~Truthy(body.plan) \/ ~Truthy(body.userId) \/ ~Truthy(body.email)
    THEN <<Response(400, "Missing plan, userId, or email")>>
  ELSE IF ~Truthy(prices(body.plan))
    THEN <<Response(400, "Unknown plan")>>
  ELSE <<>>

\* POST /create-checkout-session, server.js
createCheckoutSessionServer(r) ==
  /\ variant = "server.js"
  /\ LET config == sessionConfigServer(r.body)
     IN  /\ stripeCalls' = <<config>>
         /\ res' = IF stripeAccepts(config, r.stripe)
                     THEN Response(200, "url")
                     ELSE Response(400, "error.message")
  /\ req' = r
  /\ dbCalls' = 0
  /\ UNCHANGED <<variant, now, profiles, payment_history>>

\* POST /create-checkout-session, part_000
createCheckoutSessionPart000(r) ==
  /\ variant = "part_000"
  /\ LET invalid == validatePart000(r.body)
         config == sessionConfigPart000(r.body)
     IN  IF invalid # <<>>
           THEN /\ stripeCalls' = <<>>
                /\ res' = invalid[1]
           ELSE /\ stripeCalls' = <<config>>
                /\ res' = IF stripeAccepts(config, r.stripe)
                            THEN Response(200, "url")
                            ELSE Response(500, "error.message")
  /\ req' = r
  /\ dbCalls' = 0
  /\ UNCHANGED <<variant, now, profiles, payment_history>>

Next ==
  \/ \E r \in WebhookRequests : webhookServer(r)
  \/ \E r \in WebhookRequests : webhookPart000(r)

\* The webhook reconciler.
Spec == Init /\ [][Next]_vars

NextCheckout ==
  \/ \E r \in CheckoutRequests : createCheckoutSessionServer(r)
  \/ \E r \in CheckoutRequests : createCheckoutSessionPart000(r)

\* The checkout-session initiator, which neither reads nor writes the datastore.
SpecCheckout == Init /\ [][NextCheckout]_vars

\* ------------------------------------------------------------------ claims
ClientError == 400..499
ServerError == 500..599

\* The step handled a delivery whose signature verified.
Verified(r) == r.route = "/webhook" /\ r.signature = "valid"

\* C1: a delivery whose signature does not verify (mismatch or malformed
\* payload) is answered 4xx, issues no datastore call and leaves both tables
\* as they were.
C1_InvalidSignatureRejected ==
  [][ (req'.route = "/webhook" /\ req'.signature # "valid")
        => /\ res'.status \in ClientError
           /\ dbCalls' = 0
           /\ profiles' = profiles
           /\ payment_history' = payment_history ]_vars

\* A forged lifetime purchase was rejected after a genuine purchase had been
\* reconciled.
C1_Witness ==
  /\ req.route = "/webhook"
  /\ req.signature = "mismatch"
  /\ req.event.object.metadata.plan = "lifetime"
  /\ res = Response(400, "Webhook Error")
  /\ \E u \in Users : profiles[u].subscription_tier # "free"

\* The stripe_payment_id the reconciler files a session's payment under.
PaymentIdOf(session) == OrElse(session.payment_intent, session.id)

RowsOf(session) ==
  { i \in DOMAIN payment_history :
      payment_history[i].stripe_payment_id = PaymentIdOf(session) }

\* C2: however often a checkout.session.completed event is delivered, at most
\* one Payment Event Record exists for it.
C2_AtMostOnePaymentRecordPerEvent ==
  \A s \in Sessions : Cardinality(RowsOf(s)) <= 1

\* C3: a Subscription Record of tier lifetime is active or canceled.
C3_LifetimeIsActiveOrCanceled ==
  \A u \in Users :
    profiles[u].subscription_tier = "lifetime"
      => profiles[u].subscription_status \in {"active", "canceled"}

\* A datastore call issued for the request handled last did not succeed.
DatastoreWriteFailed ==
  \/ dbCalls >= 1 /\ req.outcome.update # "ok"
  \/ dbCalls >= 2 /\ req.outcome.insert # "ok"

\* C4: a verified delivery during which a datastore write failed is answered
\* 5xx, never acknowledged.
C4_DatastoreFailureIsServerError ==
  (Verified(req) /\ DatastoreWriteFailed) => res.status \in ServerError

\* A checkout request that fails validation: unknown plan or a missing member.
FailsValidation(body) ==
  \/ body.plan \notin {"weekly", "lifetime"}
  \/ body.userId = Undefined
  \/ body.email = Undefined

\* C5: a checkout request that fails validation is answered with a client
\* error and no session request goes to the processor.
C5_InvalidCheckoutIssuesNoProcessorCall ==
  (req.route = "/create-checkout-session" /\ FailsValidation(req.body))
    => (res.status \in ClientError /\ stripeCalls = <<>>)

\* C6: a verified customer.subscription.deleted for subscription S, its write
\* succeeding, leaves every record of subscription S canceled, free and with
\* an end timestamp, and every other record as it was.
C6_DeletedCancelsMatchingOnly ==
  [][ (Verified(req') /\ req'.event.type = "customer.subscription.deleted"
       /\ req'.outcome.update = "ok")
        => \A u \in Users :
             IF profiles[u].stripe_subscription_id = req'.event.object.id
               THEN /\ profiles'[u].subscription_status = "canceled"
                    /\ profiles'[u].subscription_tier = "free"
                    /\ profiles'[u].subscription_end_date # NoDate
               ELSE profiles'[u] = profiles[u] ]_vars

ValidCheckout(body) == ~FailsValidation(body)

\* C8: the session request of a valid checkout carries the 7-day trial exactly
\* when the plan is weekly and skipTrial is not set.
C8_TrialIffWeeklyAndNotSkipped ==
  (req.route = "/create-checkout-session" /\ ValidCheckout(req.body))
    => /\ Len(stripeCalls) = 1
       /\ ("subscription_data" \in DOMAIN stripeCalls[1])
            <=> (req.body.plan = "weekly" /\ ~req.body.skipTrial)
       /\ "subscription_data" \in DOMAIN stripeCalls[1]
            => stripeCalls[1].subscription_data.trial_period_days = 7

\* C9: a verified checkout.session.completed with metadata.plan = "lifetime"
\* and no subscription, its writes succeeding, leaves the user's record active
\* and lifetime and appends exactly one Payment Event Record, of type one_time.
C9_LifetimeCheckoutReconciled ==
  [][ (Verified(req') /\ req'.event.type = "checkout.session.completed"
       /\ req'.event.object.metadata.plan = "lifetime"
       /\ req'.event.object.subscription = Null
       /\ req'.outcome = AllOk)
        => LET u == req'.event.object.metadata.userId
           IN  /\ profiles'[u].subscription_status = "active"
               /\ profiles'[u].subscription_tier = "lifetime"
               /\ Len(payment_history') = Len(payment_history) + 1
               /\ SubSeq(payment_history', 1, Len(payment_history)) = payment_history
               /\ payment_history'[Len(payment_history')].payment_type = "one_time" ]_vars

\* C10: a verified event delivered again, all writes succeeding both times,
\* leaves every Subscription Record as the first delivery left it.
C10_RedeliveryLeavesRecordsUnchanged ==
  [][ (Verified(req) /\ req.outcome = AllOk /\ req' = req)
        => profiles' = profiles ]_vars

=============================================================================
